---- MODULE Spec2Model ----
(***************************************************************************)
(* Model of the music catalogue loaders, the reset and the top-n queries   *)
(* of music_db.py (the looser variant) and music_dbs.py (the stricter     *)
(* variant).  The relational tables are sets of rows; a loader call is    *)
(* one action that folds the per-record body of the loader's for-loop     *)
(* over the batch and commits.  Strings are sequences of one-character    *)
(* strings so that str.strip() is computed, not assumed.  DATE values are *)
(* <<year, month, day>>.  Generated ids are used as fresh keys only.      *)
(***************************************************************************)
EXTENDS Integers, Sequences, FiniteSets, TLC

VARIABLES
    variant,     \* which module is in use: "music_db" or "music_dbs"
    Artist,      \* rows [artist_id, name, is_group]
    Genre,       \* rows [genre_id, name]
    Album,       \* rows [album_id, artist_id, title, release_date, genre_id]
    Song,        \* rows [song_id, artist_id, title, album_id, single_release_date]
    Song_genre,  \* rows [song_id, genre_id, copy]: copy numbers equal rows
    User,        \* usernames
    Rating,      \* rows [username, song_id, rating_date, rating]
    call,        \* the function that was called last
    rejected,    \* the set the last loader call returned
    result,      \* the arguments and the list of the last query call
    fault        \* the storage fault of the last call and whether it was raised

vars == <<variant, Artist, Genre, Album, Song, Song_genre, User, Rating,
          call, rejected, result, fault>>

-----------------------------------------------------------------------------
(* Bounds and input values *)

MaxBatch == 2

\* the largest n a query is asked for
MaxN == 2

\* SQL NULL in an id column (AUTO_INCREMENT ids start at 1) and in a DATE column
NULL == 0
NULLDATE == <<>>

A1  == <<"A", "1">>
A1p == <<"A", "1", " ">>
A2  == <<"A", "2">>
S1  == <<"s", "1">>
S1p == <<" ", "s", "1">>
S2  == <<"s", "2">>
S2p == <<"s", "2", "\t">>
Pop  == <<"P", "o", "p">>
Popp == <<" ", "P", "o", "p", " ">>
Rock == <<"R", "o", "c", "k">>
Jazz == <<"J", "a", "z", "z">>
X   == <<"X">>
Xp  == <<"X", " ">>
Y   == <<"Y">>
U1  == <<"u", "1">>
U1p == <<" ", "u", "1">>
U2  == <<"u", "2">>
D1  == <<2020, 10, 1>>
D2  == <<2021, 2, 15>>

\* (song title, genre names, artist name, release date)
SingleInputs ==
    { <<S1,  <<Pop>>,        A1,  D1>>,
      <<S1,  <<Rock>>,       A1,  D2>>,
      <<S1p, <<Popp, Rock>>, A1p, D2>>,
      <<S2,  <<>>,           A1,  D1>>,
      <<S1,  <<Pop>>,        A2,  D1>> }

\* music_db: (album title, artist name, release date, song titles)
AlbumInputs ==
    { <<X, A1, D1, <<S1, S2>>>>,
      <<X, A1, D2, <<S2>>>>,
      <<Y, A1, D1, <<S2, S2>>>>,
      <<Y, A1, D1, <<>>>> }

\* music_dbs: (album title, genre, artist name, release date, song titles)
AlbumInputsS ==
    { <<X,  Jazz, A1,  D1, <<S1, S2>>>>,
      <<Xp, Pop,  A1p, D2, <<S2>>>>,
      <<Y,  Jazz, A1,  D1, <<S2, S2p>>>>,
      <<Y,  Jazz, A1,  D1, <<>>>> }

\* the catalogue the rating loaders are run against
SeedSingles ==
    { <<S1,  <<Pop>>,        A1,  D1>>,
      <<S1p, <<Popp, Rock>>, A1p, D2>> }

SeedAlbums == { <<X, A1, D1, <<S1, S2>>>> }

SeedAlbumsS == { <<X, Jazz, A1, D1, <<S1, S2>>>> }

UserInputs == {U1, U1p, U2}

\* (rater, (artist, song), rating, date)
RatingInputs ==
    { <<U1,  <<A1, S1>>,   3, D1>>,
      <<U1,  <<A1, S1>>,   5, D2>>,
      <<U1p, <<A1p, S1p>>, 1, D2>>,
      <<U2,  <<A1, S2>>,   0, D2>>,
      <<U2,  <<A1, S2>>,   4, D1>>,
      <<U2,  <<A1, S2>>,   6, D1>> }

\* the catalogue, users and ratings the queries are run on: two artists with
\* a song of the same title, genre tuples that repeat a genre name
QuerySingles ==
    { <<S1, <<Pop>>, A1, D1>>,
      <<S1, <<Rock, Rock>>, A2, D2>>,
      <<S2, <<Pop, Popp>>, A1, D2>> }

QueryAlbums == { <<X, A1, D1, <<S2>>>> }

QueryAlbumsS == { <<X, Jazz, A1, D1, <<S2>>>> }

QueryUsers == {U1, U2}

\* year_range arguments of the queries
YearRanges == { <<2020, 2020>>, <<2020, 2021>> }

QueryRatings ==
    { <<U1, <<A1, S1>>, 3, D1>>,
      <<U1, <<A2, S1>>, 5, D1>>,
      <<U2, <<A1, S2>>, 4, D1>>,
      <<U2, <<A1, S1>>, 2, D2>> }

Batches(S) == UNION {[1..n -> S] : n \in 0..MaxBatch}

-----------------------------------------------------------------------------
(* Helpers: Python strings and lists, the cursor *)

Whitespace == {" ", "\t", "\n"}

RECURSIVE lstrip(_)
lstrip(s) ==
    IF s # <<>> /\ Head(s) \in Whitespace THEN lstrip(Tail(s)) ELSE s

RECURSIVE rstrip(_)
rstrip(s) ==
    IF s # <<>> /\ s[Len(s)] \in Whitespace
    THEN rstrip(SubSeq(s, 1, Len(s) - 1))
    ELSE s

\* str.strip()
strip(s) == rstrip(lstrip(s))

\* [s.strip() for s in songs]
strip_all(songs) == [i \in 1..Len(songs) |-> strip(songs[i])]

\* faulty variant: repeated titles are kept
fromkeys_keep_all(songs) == songs

\* list(dict.fromkeys(songs)): first occurrences, in order
RECURSIVE fromkeys(_)
fromkeys(songs) ==
    IF songs = <<>> THEN <<>>
    ELSE LET init == fromkeys(SubSeq(songs, 1, Len(songs) - 1))
             last == songs[Len(songs)]
         IN  IF \E i \in 1..Len(init) : init[i] = last
             THEN init
             ELSE Append(init, last)

\* cursor.lastrowid after an INSERT into a table whose AUTO_INCREMENT ids are `ids`
lastrowid(ids) ==
    IF ids = {} THEN 1
    ELSE (CHOOSE x \in ids : \A y \in ids : y <= x) + 1

\* the database as one value, for the loaders' loops
DB == [Artist |-> Artist, Genre |-> Genre, Album |-> Album, Song |-> Song,
       Song_genre |-> Song_genre, User |-> User, Rating |-> Rating]

\* mydb.commit(): the loop's inserts become the stored tables
commit(db) ==
    /\ Artist' = db.Artist
    /\ Genre' = db.Genre
    /\ Album' = db.Album
    /\ Song' = db.Song
    /\ Song_genre' = db.Song_genre
    /\ User' = db.User
    /\ Rating' = db.Rating

-----------------------------------------------------------------------------
(* Statements shared by the loaders *)

\* SELECT artist_id FROM Artist WHERE name = %s
select_artist(db, artist_name) == {a \in db.Artist : a.name = artist_name}

\* resolve-or-create the artist: the tables afterwards
ensure_artist(db, artist_name) ==
    IF select_artist(db, artist_name) # {} THEN db
    ELSE [db EXCEPT !.Artist = @ \cup
            {[artist_id |-> lastrowid({a.artist_id : a \in db.Artist}),
              name |-> artist_name, is_group |-> 0]}]

\* the artist_id the loader holds after ensure_artist
artist_id_of(db, artist_name) ==
    (CHOOSE a \in db.Artist : a.name = artist_name).artist_id

\* faulty variant: the duplicate check looks at singles only
select_song_singles_only(db, artist_id, title) ==
    {s \in db.Song : s.artist_id = artist_id /\ s.title = title /\ s.album_id = NULL}

\* SELECT song_id FROM Song WHERE artist_id = %s AND title = %s
select_song(db, artist_id, title) ==
    {s \in db.Song : s.artist_id = artist_id /\ s.title = title}

\* SELECT genre_id FROM Genre WHERE name = %s
select_genre(db, g) == {x \in db.Genre : x.name = g}

\* resolve-or-create the genre: the tables afterwards
ensure_genre(db, g) ==
    IF select_genre(db, g) # {} THEN db
    ELSE [db EXCEPT !.Genre = @ \cup
            {[genre_id |-> lastrowid({x.genre_id : x \in db.Genre}), name |-> g]}]

genre_id_of(db, g) == (CHOOSE x \in db.Genre : x.name = g).genre_id

\* INSERT INTO Song (artist_id, title, album_id, single_release_date)
insert_song(db, artist_id, title, album_id, single_release_date) ==
    [db EXCEPT !.Song = @ \cup
        {[song_id |-> lastrowid({s.song_id : s \in db.Song}),
          artist_id |-> artist_id, title |-> title, album_id |-> album_id,
          single_release_date |-> single_release_date]}]

\* INSERT INTO Song_genre (song_id, genre_id): the table is a multiset, an
\* equal row is stored once more under the next copy number
insert_song_genre(db, song_id, genre_id) ==
    LET equal == {x \in db.Song_genre : x.song_id = song_id /\ x.genre_id = genre_id}
    IN  [db EXCEPT !.Song_genre = @ \cup {[song_id |-> song_id, genre_id |-> genre_id,
                                           copy |-> Cardinality(equal) + 1]}]

-----------------------------------------------------------------------------
(* music_db.py *)

\* the genre loop of load_single_songs (lines 79-91)
RECURSIVE db_insert_genres(_, _, _)
db_insert_genres(db, song_id, genre_names) ==
    IF genre_names = <<>> THEN db
    ELSE LET g == Head(genre_names)
             d1 == ensure_genre(db, g)
         IN  db_insert_genres(insert_song_genre(d1, song_id, genre_id_of(d1, g)),
                              song_id, Tail(genre_names))

\* one iteration of the loop of load_single_songs
db_single_record(st, rec) ==
    LET title == rec[1]
        genre_names == rec[2]
        artist_name == rec[3]
        release_date == rec[4]
        d1 == ensure_artist(st.db, artist_name)
        artist_id == artist_id_of(d1, artist_name)
    IN  IF select_song(d1, artist_id, title) # {}
        THEN [db |-> d1, rejected |-> st.rejected \cup {<<title, artist_name>>}]
        ELSE LET song_id == lastrowid({s.song_id : s \in d1.Song})
                 d2 == insert_song(d1, artist_id, title, NULL, release_date)
             IN  [db |-> db_insert_genres(d2, song_id, genre_names),
                  rejected |-> st.rejected]

RECURSIVE db_single_loop(_, _)
db_single_loop(st, single_songs) ==
    IF single_songs = <<>> THEN st
    ELSE db_single_loop(db_single_record(st, Head(single_songs)), Tail(single_songs))

\* SELECT album_id FROM Album WHERE title = %s AND artist_id = %s
\* faulty variant: the artist's id is compared with the album's own id
select_album_by_own_id(db, title, artist_id) ==
    {b \in db.Album : b.title = title /\ b.album_id = artist_id}

select_album(db, title, artist_id) ==
    {b \in db.Album : b.title = title /\ b.artist_id = artist_id}

\* INSERT INTO Album (artist_id, title, release_date, genre_id)
insert_album(db, artist_id, title, release_date, genre_id) ==
    [db EXCEPT !.Album = @ \cup
        {[album_id |-> lastrowid({b.album_id : b \in db.Album}),
          artist_id |-> artist_id, title |-> title,
          release_date |-> release_date, genre_id |-> genre_id]}]

\* faulty variant: the song loop stops at the first title that already exists
RECURSIVE db_album_songs_break(_, _, _, _)
db_album_songs_break(db, artist_id, album_id, songs) ==
    IF songs = <<>> THEN db
    ELSE LET s_title == Head(songs)
         IN  IF select_song(db, artist_id, s_title) # {}
             THEN db
             ELSE db_album_songs_break(
                      insert_song(db, artist_id, s_title, album_id, NULLDATE),
                      artist_id, album_id, Tail(songs))

\* the song loop of load_albums (lines 197-209)
RECURSIVE db_album_songs(_, _, _, _)
db_album_songs(db, artist_id, album_id, songs) ==
    IF songs = <<>> THEN db
    ELSE LET s_title == Head(songs)
         IN  IF select_song(db, artist_id, s_title) # {}
             THEN db_album_songs(db, artist_id, album_id, Tail(songs))
             ELSE db_album_songs(insert_song(db, artist_id, s_title, album_id, NULLDATE),
                                 artist_id, album_id, Tail(songs))

\* one iteration of the loop of load_albums
db_album_record(st, rec) ==
    LET title == rec[1]
        artist_name == rec[2]
        release_date == rec[3]
        songs == rec[4]
        d1 == ensure_artist(st.db, artist_name)
        artist_id == artist_id_of(d1, artist_name)
    IN  IF select_album(d1, title, artist_id) # {}
        THEN [db |-> d1, rejected |-> st.rejected \cup {<<title, artist_name>>}]
        ELSE LET album_id == lastrowid({b.album_id : b \in d1.Album})
                 d2 == insert_album(d1, artist_id, title, release_date, NULL)
             IN  [db |-> db_album_songs(d2, artist_id, album_id, songs),
                  rejected |-> st.rejected]

RECURSIVE db_album_loop(_, _)
db_album_loop(st, albums) ==
    IF albums = <<>> THEN st
    ELSE db_album_loop(db_album_record(st, Head(albums)), Tail(albums))

\* the User table's key (username): whether the INSERT of load_users raises
user_insert_fails(db, username) == username \in db.User

\* one iteration of the loop of load_users: try INSERT, except: reject
db_user_record(st, username) ==
    IF user_insert_fails(st.db, username)
    THEN [st EXCEPT !.rejected = @ \cup {username}]
    ELSE [st EXCEPT !.db.User = @ \cup {username}]

RECURSIVE db_user_loop(_, _)
db_user_loop(st, users) ==
    IF users = <<>> THEN st
    ELSE db_user_loop(db_user_record(st, Head(users)), Tail(users))

\* SELECT s.song_id FROM Song s JOIN Artist a ... WHERE a.name = %s AND s.title = %s
select_song_by_name(db, artist_name, song_title) ==
    {s \in db.Song : s.title = song_title /\
        \E a \in db.Artist : a.artist_id = s.artist_id /\ a.name = artist_name}

\* SELECT * FROM Rating WHERE username = %s AND song_id = %s AND rating_date = %s
db_select_rating(db, username, song_id, rating_date) ==
    {r \in db.Rating : r.username = username /\ r.song_id = song_id
                        /\ r.rating_date = rating_date}

\* the Rating table's key in music_db's schema (one rating per user, song and
\* day): whether the INSERT of load_song_ratings raises
db_rating_insert_fails(db, username, song_id, rating_date) ==
    \E r \in db.Rating : r.username = username /\ r.song_id = song_id
                          /\ r.rating_date = rating_date

\* INSERT INTO Rating (username, song_id, rating_date, rating)
insert_rating(db, username, song_id, rating_date, rating) ==
    [db EXCEPT !.Rating = @ \cup
        {[username |-> username, song_id |-> song_id,
          rating_date |-> rating_date, rating |-> rating]}]

\* faulty variant: the range check lets 0 through
bad_rating_off_by_one(rating) == rating < 0 \/ rating > 5

\* if rating < 1 or rating > 5
db_bad_rating(rating) == rating < 1 \/ rating > 5

\* one iteration of the loop of load_song_ratings
db_rating_record(st, rec) ==
    LET username == rec[1]
        artist_name == rec[2][1]
        song_title == rec[2][2]
        rating == rec[3]
        rating_date == rec[4]
        reject == [st EXCEPT !.rejected = @ \cup {<<username, artist_name, song_title>>}]
        row == select_song_by_name(st.db, artist_name, song_title)
    IN  IF db_bad_rating(rating) THEN reject
        ELSE IF username \notin st.db.User THEN reject
        ELSE IF row = {} THEN reject
        ELSE LET song_id == (CHOOSE s \in row : TRUE).song_id
             IN  IF db_select_rating(st.db, username, song_id, rating_date) # {}
                 THEN reject
                 ELSE IF db_rating_insert_fails(st.db, username, song_id, rating_date)
                 THEN reject
                 ELSE [st EXCEPT !.db = insert_rating(@, username, song_id,
                                                      rating_date, rating)]

\* faulty variant: the loop ends at the first rejected record
RECURSIVE db_rating_loop_break(_, _)
db_rating_loop_break(st, song_ratings) ==
    IF song_ratings = <<>> THEN st
    ELSE LET next == db_rating_record(st, Head(song_ratings))
         IN  IF next.rejected # st.rejected THEN next
             ELSE db_rating_loop_break(next, Tail(song_ratings))

RECURSIVE db_rating_loop(_, _)
db_rating_loop(st, song_ratings) ==
    IF song_ratings = <<>> THEN st
    ELSE db_rating_loop(db_rating_record(st, Head(song_ratings)), Tail(song_ratings))

-----------------------------------------------------------------------------
(* music_dbs.py *)

\* the genre loop of load_single_songs (lines 94-108)
RECURSIVE dbs_insert_genres(_, _, _)
dbs_insert_genres(db, song_id, genre_names) ==
    IF genre_names = <<>> THEN db
    ELSE LET g == strip(Head(genre_names))
             d1 == ensure_genre(db, g)
         IN  dbs_insert_genres(insert_song_genre(d1, song_id, genre_id_of(d1, g)),
                               song_id, Tail(genre_names))

\* one iteration of the loop of load_single_songs
dbs_single_record(st, rec) ==
    LET title == strip(rec[1])
        genre_names == rec[2]
        artist_name == strip(rec[3])
        release_date == rec[4]
        reject == [st EXCEPT !.rejected = @ \cup {<<title, artist_name>>}]
    IN  IF Len(genre_names) = 0 THEN reject
        ELSE LET d1 == ensure_artist(st.db, artist_name)
                 artist_id == artist_id_of(d1, artist_name)
             IN  IF select_song(d1, artist_id, title) # {}
                 THEN [reject EXCEPT !.db = d1]
                 ELSE LET song_id == lastrowid({s.song_id : s \in d1.Song})
                          d2 == insert_song(d1, artist_id, title, NULL, release_date)
                      IN  [db |-> dbs_insert_genres(d2, song_id, genre_names),
                           rejected |-> st.rejected]

RECURSIVE dbs_single_loop(_, _)
dbs_single_loop(st, single_songs) ==
    IF single_songs = <<>> THEN st
    ELSE dbs_single_loop(dbs_single_record(st, Head(single_songs)), Tail(single_songs))

\* the pre-check loop of load_albums (lines 226-232)
dbs_reject_album(db, artist_id, songs) ==
    \E i \in 1..Len(songs) : select_song(db, artist_id, songs[i]) # {}

\* the insert loop of load_albums (lines 244-248)
RECURSIVE dbs_album_songs(_, _, _, _, _)
dbs_album_songs(db, artist_id, album_id, genre_id, songs) ==
    IF songs = <<>> THEN db
    ELSE LET song_id == lastrowid({s.song_id : s \in db.Song})
             d1 == insert_song(db, artist_id, Head(songs), album_id, NULLDATE)
         IN  dbs_album_songs(insert_song_genre(d1, song_id, genre_id),
                             artist_id, album_id, genre_id, Tail(songs))

\* one iteration of the loop of load_albums
dbs_album_record(st, rec) ==
    LET title == strip(rec[1])
        genre_name == strip(rec[2])
        artist_name == strip(rec[3])
        release_date == rec[4]
        reject == [st EXCEPT !.rejected = @ \cup {<<title, artist_name>>}]
    IN  IF Len(rec[5]) = 0 THEN reject
        ELSE LET songs == fromkeys(strip_all(rec[5]))
                 d1 == ensure_artist(st.db, artist_name)
                 artist_id == artist_id_of(d1, artist_name)
             IN  IF select_album(d1, title, artist_id) # {}
                 THEN [reject EXCEPT !.db = d1]
                 ELSE LET d2 == ensure_genre(d1, genre_name)
                          genre_id == genre_id_of(d2, genre_name)
                      IN  IF dbs_reject_album(d2, artist_id, songs)
                          THEN [reject EXCEPT !.db = d2]
                          ELSE LET album_id == lastrowid({b.album_id : b \in d2.Album})
                                   d3 == insert_album(d2, artist_id, title,
                                                      release_date, genre_id)
                               IN  [db |-> dbs_album_songs(d3, artist_id, album_id,
                                                           genre_id, songs),
                                    rejected |-> st.rejected]

RECURSIVE dbs_album_loop(_, _)
dbs_album_loop(st, albums) ==
    IF albums = <<>> THEN st
    ELSE dbs_album_loop(dbs_album_record(st, Head(albums)), Tail(albums))

\* one iteration of the loop of load_users: pre-check, then INSERT
dbs_user_record(st, user) ==
    LET username == strip(user)
    IN  IF username \in st.db.User
        THEN [st EXCEPT !.rejected = @ \cup {username}]
        ELSE [st EXCEPT !.db.User = @ \cup {username}]

RECURSIVE dbs_user_loop(_, _)
dbs_user_loop(st, users) ==
    IF users = <<>> THEN st
    ELSE dbs_user_loop(dbs_user_record(st, Head(users)), Tail(users))

\* SELECT * FROM Rating WHERE username = %s AND song_id = %s
dbs_select_rating(db, username, song_id) ==
    {r \in db.Rating : r.username = username /\ r.song_id = song_id}

\* if rating < 1 or rating > 5
dbs_bad_rating(rating) == rating < 1 \/ rating > 5

\* faulty variant: the duplicate check of the looser variant, scoped to the rating date
dbs_rating_record_same_day(st, rec) ==
    db_rating_record(st, <<strip(rec[1]), <<strip(rec[2][1]), strip(rec[2][2])>>,
                           rec[3], rec[4]>>)

\* one iteration of the loop of load_song_ratings
dbs_rating_record(st, rec) ==
    LET username == strip(rec[1])
        artist_name == strip(rec[2][1])
        song_title == strip(rec[2][2])
        rating == rec[3]
        rating_date == rec[4]
        reject == [st EXCEPT !.rejected = @ \cup {<<username, artist_name, song_title>>}]
        row == select_song_by_name(st.db, artist_name, song_title)
    IN  IF dbs_bad_rating(rating) THEN reject
        ELSE IF username \notin st.db.User THEN reject
        ELSE IF row = {} THEN reject
        ELSE LET song_id == (CHOOSE s \in row : TRUE).song_id
             IN  IF dbs_select_rating(st.db, username, song_id) # {}
                 THEN reject
                 ELSE [st EXCEPT !.db = insert_rating(@, username, song_id,
                                                      rating_date, rating)]

RECURSIVE dbs_rating_loop(_, _)
dbs_rating_loop(st, song_ratings) ==
    IF song_ratings = <<>> THEN st
    ELSE dbs_rating_loop(dbs_rating_record(st, Head(song_ratings)), Tail(song_ratings))

-----------------------------------------------------------------------------
(* The loader calls *)

\* the loop starts from the stored tables with rejected = set()
start == [db |-> DB, rejected |-> {}]

\* a call that is no query returns no list
NoResult == [n |-> 0, year_range |-> <<0, 0>>, rows |-> <<>>]

\* a call during which no statement failed
NoFault == [stmt |-> "none", raised |-> FALSE]

\* mydb.commit(); return rejected, after a call in which f was the fault
returned(op, st, f) ==
    /\ commit(st.db)
    /\ call' = op
    /\ rejected' = st.rejected
    /\ result' = NoResult
    /\ fault' = f
    /\ UNCHANGED variant

\* mydb.commit(); return rejected
returns(op, st) == returned(op, st, NoFault)

db_load_single_songs(inputs) ==
    /\ variant = "music_db"
    /\ \E single_songs \in inputs :
         returns("load_single_songs", db_single_loop(start, single_songs))

db_load_albums(inputs) ==
    /\ variant = "music_db"
    /\ \E albums \in inputs :
         returns("load_albums", db_album_loop(start, albums))

db_load_users(inputs) ==
    /\ variant = "music_db"
    /\ \E users \in inputs :
         returns("load_users", db_user_loop(start, users))

db_load_song_ratings(inputs) ==
    /\ variant = "music_db"
    /\ \E song_ratings \in inputs :
         returns("load_song_ratings", db_rating_loop(start, song_ratings))

dbs_load_single_songs(inputs) ==
    /\ variant = "music_dbs"
    /\ \E single_songs \in inputs :
         returns("load_single_songs", dbs_single_loop(start, single_songs))

dbs_load_albums(inputs) ==
    /\ variant = "music_dbs"
    /\ \E albums \in inputs :
         returns("load_albums", dbs_album_loop(start, albums))

dbs_load_users(inputs) ==
    /\ variant = "music_dbs"
    /\ \E users \in inputs :
         returns("load_users", dbs_user_loop(start, users))

dbs_load_song_ratings(inputs) ==
    /\ variant = "music_dbs"
    /\ \E song_ratings \in inputs :
         returns("load_song_ratings", dbs_rating_loop(start, song_ratings))

(* The top-n queries; their text is the same in both modules.  A query is    *)
(* modelled by the set of lists the database may return for it: ORDER BY     *)
(* leaves the order of rows with equal sort keys open.                       *)

\* the characters in use, in the order of their codes
Chars == <<"\t", " ", "1", "2", "A", "J", "P", "R", "X", "Y",
           "a", "c", "k", "o", "p", "s", "u", "z">>

ord(c) == CHOOSE i \in 1..Len(Chars) : Chars[i] = c

\* name ASC: a sorts before b
RECURSIVE str_before(_, _)
str_before(a, b) ==
    IF b = <<>> THEN FALSE
    ELSE IF a = <<>> THEN TRUE
    ELSE IF Head(a) # Head(b) THEN ord(Head(a)) < ord(Head(b))
    ELSE str_before(Tail(a), Tail(b))

\* faulty variant: ORDER BY the count alone
ranks_before_by_count(g, h) == g.count > h.count

\* faulty variant: the count ascending
ranks_before_count_asc(g, h) ==
    \/ g.count < h.count
    \/ g.count = h.count /\ str_before(g.name, h.name)

\* ORDER BY count DESC, name ASC: group g must come before group h
ranks_before(g, h) ==
    \/ g.count > h.count
    \/ g.count = h.count /\ str_before(g.name, h.name)

\* ORDER BY ... LIMIT n over the grouped rows: every list the statement can
\* return; a group is [key, name, count, row], row being the SELECT list
order_by_limit(groups, n) ==
    LET k == Cardinality(groups)
        m == IF n < k THEN n ELSE k
        ordered == {p \in [1..k -> groups] :
                      \A i, j \in 1..k :
                          i < j => p[i] # p[j] /\ ~ranks_before(p[j], p[i])}
    IN  {[i \in 1..m |-> p[i].row] : p \in ordered}

\* WHERE YEAR(date) BETWEEN %s AND %s
year_between(date, year_range) ==
    /\ date # NULLDATE
    /\ year_range[1] <= date[1]
    /\ date[1] <= year_range[2]

\* Artist JOIN Song WHERE is_group = 0 AND album_id IS NULL AND YEAR(...)
\* GROUP BY a.artist_id
prolific_groups(db, year_range) ==
    LET singles(a) == {s \in db.Song : /\ s.artist_id = a.artist_id
                                       /\ s.album_id = NULL
                                       /\ year_between(s.single_release_date, year_range)}
    IN  {[key |-> a.artist_id, name |-> a.name, count |-> Cardinality(singles(a)),
          row |-> <<a.name, Cardinality(singles(a))>>] :
            a \in {x \in db.Artist : x.is_group = 0 /\ singles(x) # {}}}

get_most_prolific_individual_artists(db, n, year_range) ==
    order_by_limit(prolific_groups(db, year_range), n)

\* Genre JOIN Song_genre GROUP BY g.genre_id
genre_groups(db) ==
    LET links(g) == {l \in db.Song_genre : l.genre_id = g.genre_id}
    IN  {[key |-> g.genre_id, name |-> g.name, count |-> Cardinality(links(g)),
          row |-> <<g.name, Cardinality(links(g))>>] :
            g \in {x \in db.Genre : links(x) # {}}}

get_top_song_genres(db, n) == order_by_limit(genre_groups(db), n)

\* Rating JOIN Song JOIN Artist WHERE YEAR(r.rating_date) ... GROUP BY s.song_id
rated_groups(db, year_range) ==
    LET ratings(s) == {r \in db.Rating : /\ r.song_id = s.song_id
                                         /\ year_between(r.rating_date, year_range)}
        artist(s) == CHOOSE a \in db.Artist : a.artist_id = s.artist_id
    IN  {[key |-> s.song_id, name |-> s.title, count |-> Cardinality(ratings(s)),
          row |-> <<s.title, artist(s).name, Cardinality(ratings(s))>>] :
            s \in {x \in db.Song : /\ ratings(x) # {}
                                    /\ \E a \in db.Artist : a.artist_id = x.artist_id}}

get_most_rated_songs(db, year_range, n) ==
    order_by_limit(rated_groups(db, year_range), n)

\* User JOIN Rating WHERE YEAR(r.rating_date) ... GROUP BY u.username
engaged_groups(db, year_range) ==
    LET ratings(u) == {r \in db.Rating : /\ r.username = u
                                         /\ year_between(r.rating_date, year_range)}
    IN  {[key |-> u, name |-> u, count |-> Cardinality(ratings(u)),
          row |-> <<u, Cardinality(ratings(u))>>] :
            u \in {x \in db.User : ratings(x) # {}}}

get_most_engaged_users(db, year_range, n) ==
    order_by_limit(engaged_groups(db, year_range), n)

\* cursor.fetchall(); return the list: the tables are left as they are
fetched(op, n, year_range, lists) ==
    /\ \E rows \in lists :
         result' = [n |-> n, year_range |-> year_range, rows |-> rows]
    /\ call' = op
    /\ rejected' = {}
    /\ fault' = NoFault
    /\ UNCHANGED <<variant, Artist, Genre, Album, Song, Song_genre, User, Rating>>

call_get_most_prolific_individual_artists ==
    \E n \in 0..MaxN, year_range \in YearRanges :
        fetched("get_most_prolific_individual_artists", n, year_range,
                get_most_prolific_individual_artists(DB, n, year_range))

call_get_top_song_genres ==
    \E n \in 0..MaxN :
        fetched("get_top_song_genres", n, <<0, 0>>, get_top_song_genres(DB, n))

call_get_most_rated_songs ==
    \E n \in 0..MaxN, year_range \in YearRanges :
        fetched("get_most_rated_songs", n, year_range,
                get_most_rated_songs(DB, year_range, n))

call_get_most_engaged_users ==
    \E n \in 0..MaxN, year_range \in YearRanges :
        fetched("get_most_engaged_users", n, year_range,
                get_most_engaged_users(DB, year_range, n))

(* Storage faults in load_users and load_song_ratings: one statement of the  *)
(* call raises an error that is no constraint violation (a lock wait         *)
(* timeout, a deadlock); the statements before and after it work.            *)

\* the exception leaves the loader before mydb.commit(): nothing is returned;
\* the rows inserted so far are pending in the connection's transaction and
\* either are rolled back or reach the tables with the next commit
raised(op, pending, stmt) ==
    /\ \E kept \in BOOLEAN : commit(IF kept THEN pending ELSE DB)
    /\ call' = op
    /\ rejected' = {}
    /\ result' = NoResult
    /\ fault' = [stmt |-> stmt, raised |-> TRUE]
    /\ UNCHANGED variant

\* the statements an iteration of music_db.load_users executes
db_user_reached(st, username) == {"INSERT User"}

\* music_db.load_users, the INSERT of the record at position `at` failing:
\* the bare except adds the username to rejected and the loop goes on
db_load_users_fault(inputs) ==
    /\ variant = "music_db"
    /\ \E users \in inputs : \E at \in 1..Len(users) :
         LET before == db_user_loop(start, SubSeq(users, 1, at - 1))
             caught == [before EXCEPT !.rejected = @ \cup {users[at]}]
         IN  \E stmt \in db_user_reached(before, users[at]) :
                 returned("load_users",
                          db_user_loop(caught, SubSeq(users, at + 1, Len(users))),
                          [stmt |-> stmt, raised |-> FALSE])

\* the statements an iteration of music_dbs.load_users executes
dbs_user_reached(st, user) ==
    {"SELECT User"} \cup (IF strip(user) \in st.db.User THEN {} ELSE {"INSERT User"})

\* music_dbs.load_users, a statement of the record at position `at` failing:
\* no handler, the exception leaves the loader
dbs_load_users_fault(inputs) ==
    /\ variant = "music_dbs"
    /\ \E users \in inputs : \E at \in 1..Len(users) :
         LET before == dbs_user_loop(start, SubSeq(users, 1, at - 1))
         IN  \E stmt \in dbs_user_reached(before, users[at]) :
                 raised("load_users", before.db, stmt)

\* the statements an iteration of music_db.load_song_ratings executes
db_rating_reached(st, rec) ==
    LET row == select_song_by_name(st.db, rec[2][1], rec[2][2])
    IN  IF db_bad_rating(rec[3]) THEN {}
        ELSE IF rec[1] \notin st.db.User THEN {"SELECT User"}
        ELSE IF row = {} THEN {"SELECT User", "SELECT Song"}
        ELSE IF db_select_rating(st.db, rec[1], (CHOOSE s \in row : TRUE).song_id,
                                 rec[4]) # {}
        THEN {"SELECT User", "SELECT Song", "SELECT Rating"}
        ELSE {"SELECT User", "SELECT Song", "SELECT Rating", "INSERT Rating"}

\* music_db.load_song_ratings, a statement of the record at position `at`
\* failing: the INSERT is inside try with a bare except, which adds the
\* record to rejected and lets the loop go on; a SELECT has no handler
db_load_song_ratings_fault(inputs) ==
    /\ variant = "music_db"
    /\ \E song_ratings \in inputs : \E at \in 1..Len(song_ratings) :
         LET before == db_rating_loop(start, SubSeq(song_ratings, 1, at - 1))
             rec == song_ratings[at]
             caught == [before EXCEPT !.rejected = @ \cup {<<rec[1], rec[2][1], rec[2][2]>>}]
         IN  \E stmt \in db_rating_reached(before, rec) :
                 IF stmt = "INSERT Rating"
                 THEN returned("load_song_ratings",
                               db_rating_loop(caught, SubSeq(song_ratings, at + 1,
                                                             Len(song_ratings))),
                               [stmt |-> stmt, raised |-> FALSE])
                 ELSE raised("load_song_ratings", before.db, stmt)

\* the statements an iteration of music_dbs.load_song_ratings executes
dbs_rating_reached(st, rec) ==
    LET username == strip(rec[1])
        row == select_song_by_name(st.db, strip(rec[2][1]), strip(rec[2][2]))
    IN  IF dbs_bad_rating(rec[3]) THEN {}
        ELSE IF username \notin st.db.User THEN {"SELECT User"}
        ELSE IF row = {} THEN {"SELECT User", "SELECT Song"}
        ELSE IF dbs_select_rating(st.db, username, (CHOOSE s \in row : TRUE).song_id) # {}
        THEN {"SELECT User", "SELECT Song", "SELECT Rating"}
        ELSE {"SELECT User", "SELECT Song", "SELECT Rating", "INSERT Rating"}

\* music_dbs.load_song_ratings, a statement of the record at position `at`
\* failing: no handler, the exception leaves the loader
dbs_load_song_ratings_fault(inputs) ==
    /\ variant = "music_dbs"
    /\ \E song_ratings \in inputs : \E at \in 1..Len(song_ratings) :
         LET before == dbs_rating_loop(start, SubSeq(song_ratings, 1, at - 1))
         IN  \E stmt \in dbs_rating_reached(before, song_ratings[at]) :
                 raised("load_song_ratings", before.db, stmt)

-----------------------------------------------------------------------------
(* The reset *)

\* faulty variant: the parent table Artist is deleted first
tables_artist_first ==
    <<"Artist", "Rating", "Song_genre", "Song", "Album", "User", "Genre">>

\* music_db.clear_database: the tables in the order of its DELETE statements
db_tables == <<"Rating", "Song_genre", "Song", "Album", "User", "Genre", "Artist">>

\* music_dbs.clear_database: tables = [...]
dbs_tables == <<"Rating", "Song_genre", "Song", "Album", "User", "Genre", "Artist">>

\* DELETE FROM table
delete_from(db, table) == [db EXCEPT ![table] = {}]

\* the tables after the first k DELETE statements of clear_database
RECURSIVE after_deletes(_, _, _)
after_deletes(db, tables, k) ==
    IF k = 0 THEN db
    ELSE delete_from(after_deletes(db, tables, k - 1), tables[k])

\* the seven DELETE statements, mydb.commit(); nothing is returned
cleared(tables) ==
    /\ commit(after_deletes(DB, tables, Len(tables)))
    /\ call' = "clear_database"
    /\ rejected' = {}
    /\ result' = NoResult
    /\ fault' = NoFault
    /\ UNCHANGED variant

db_clear_database ==
    /\ variant = "music_db"
    /\ cleared(db_tables)

\* SELECT COUNT(*) FROM Rating and the print change nothing; the foreign key
\* checks are off while the DELETE statements run
dbs_clear_database ==
    /\ variant = "music_dbs"
    /\ cleared(dbs_tables)

Init ==
    /\ variant \in {"music_db", "music_dbs"}
    /\ Artist = {}
    /\ Genre = {}
    /\ Album = {}
    /\ Song = {}
    /\ Song_genre = {}
    /\ User = {}
    /\ Rating = {}
    /\ call = "none"
    /\ rejected = {}
    /\ result = NoResult
    /\ fault = NoFault

\* every loader, the song and album loaders on the seed catalogue
Next ==
    \/ db_load_single_songs(Batches(SeedSingles))
    \/ db_load_albums(Batches(SeedAlbums))
    \/ db_load_users(Batches(UserInputs))
    \/ db_load_song_ratings(Batches(RatingInputs))
    \/ dbs_load_single_songs(Batches(SeedSingles))
    \/ dbs_load_albums(Batches(SeedAlbumsS))
    \/ dbs_load_users(Batches(UserInputs))
    \/ dbs_load_song_ratings(Batches(RatingInputs))

Spec == Init /\ [][Next]_vars

\* the song and album loaders on all their inputs
NextCatalog ==
    \/ db_load_single_songs(Batches(SingleInputs))
    \/ db_load_albums(Batches(AlbumInputs))
    \/ dbs_load_single_songs(Batches(SingleInputs))
    \/ dbs_load_albums(Batches(AlbumInputsS))

SpecCatalog == Init /\ [][NextCatalog]_vars

\* the batches of one record
Records(S) == {<<x>> : x \in S}

\* every loader, called with one record at a time
NextCalls ==
    \/ db_load_single_songs(Records(SeedSingles))
    \/ db_load_albums(Records(SeedAlbums))
    \/ db_load_users(Records(UserInputs))
    \/ db_load_song_ratings(Records(RatingInputs))
    \/ dbs_load_single_songs(Records(SeedSingles))
    \/ dbs_load_albums(Records(SeedAlbumsS))
    \/ dbs_load_users(Records(UserInputs))
    \/ dbs_load_song_ratings(Records(RatingInputs))

SpecCalls == Init /\ [][NextCalls]_vars

\* the loaders on the query catalogue, one record per call, the reset and
\* the top-n queries
NextQueries ==
    \/ db_load_single_songs(Records(QuerySingles))
    \/ db_load_albums(Records(QueryAlbums))
    \/ db_load_users(Records(QueryUsers))
    \/ db_load_song_ratings(Records(QueryRatings))
    \/ dbs_load_single_songs(Records(QuerySingles))
    \/ dbs_load_albums(Records(QueryAlbumsS))
    \/ dbs_load_users(Records(QueryUsers))
    \/ dbs_load_song_ratings(Records(QueryRatings))
    \/ db_clear_database
    \/ dbs_clear_database
    \/ call_get_most_prolific_individual_artists
    \/ call_get_top_song_genres
    \/ call_get_most_rated_songs
    \/ call_get_most_engaged_users

SpecQueries == Init /\ [][NextQueries]_vars

\* the loaders, one record per call, and the calls of load_users and
\* load_song_ratings during which a statement fails
NextFaults ==
    \/ NextCalls
    \/ db_load_users_fault(Batches(UserInputs))
    \/ db_load_song_ratings_fault(Batches(RatingInputs))
    \/ dbs_load_users_fault(Batches(UserInputs))
    \/ dbs_load_song_ratings_fault(Batches(RatingInputs))

SpecFaults == Init /\ [][NextFaults]_vars

-----------------------------------------------------------------------------
(* Vocabulary of the properties *)

\* the name of the artist a song or album row refers to
artist_name_of(db, row) ==
    {a.name : a \in {x \in db.Artist : x.artist_id = row.artist_id}}

\* the songs stored for an artist name and a title
songs_of(db, artist_name, title) ==
    {s \in db.Song : s.title = title /\ artist_name \in artist_name_of(db, s)}

\* the albums stored for an artist name and a title
albums_of(db, artist_name, title) ==
    {b \in db.Album : b.title = title /\ artist_name \in artist_name_of(db, b)}

\* a name as the variant in use compares it
as_compared(s) == IF variant = "music_dbs" THEN strip(s) ELSE s

\* one record run through the loop body of the variant in use
single_record(st, rec) ==
    IF variant = "music_dbs" THEN dbs_single_record(st, rec) ELSE db_single_record(st, rec)

rating_record(st, rec) ==
    IF variant = "music_dbs" THEN dbs_rating_record(st, rec) ELSE db_rating_record(st, rec)

single_loop(st, batch) ==
    IF variant = "music_dbs" THEN dbs_single_loop(st, batch) ELSE db_single_loop(st, batch)

-----------------------------------------------------------------------------
(* C1 *)

\* C1: in both variants the Song table never holds two rows with the same
\* (artist, title), singles and album tracks alike; and loading a single a
\* second time right after the first rejects it and changes no table.
C1_SongUniquePerArtist ==
    /\ \A s, t \in Song :
         (s.title = t.title /\ artist_name_of(DB, s) = artist_name_of(DB, t)) => s = t
    /\ \A a, b \in Artist : a.name = b.name => a = b
    /\ \A rec \in SingleInputs :
         LET first == single_record(start, rec)
             second == single_record([db |-> first.db, rejected |-> {}], rec)
         IN  /\ second.db = first.db
             /\ second.rejected = {<<as_compared(rec[1]), as_compared(rec[3])>>}

\* a single was rejected while the artist's song of that title is an album track
C1_Witness ==
    /\ call = "load_single_songs"
    /\ <<S1, A1>> \in rejected
    /\ \E s \in songs_of(DB, A1, S1) : s.album_id # NULL

-----------------------------------------------------------------------------
(* C2 *)

\* C2: in music_dbs a call of load_albums in which every album is rejected
\* (no Album row is inserted) leaves every table as it was.
C2_RejectedAlbumAtomic ==
    [][(variant = "music_dbs" /\ call' = "load_albums" /\ Album' = Album)
          => DB' = DB]_vars

-----------------------------------------------------------------------------
(* C3 *)

\* at most one Rating row per (username, song)
one_rating_per_user_song(db) ==
    \A r1, r2 \in db.Rating :
        (r1.username = r2.username /\ r1.song_id = r2.song_id) => r1 = r2

\* C3: in music_db the Rating table holds at most one rating per
\* (username, song), whatever the rating dates.
C3_OneRatingPerUserSong ==
    variant = "music_db" => one_rating_per_user_song(DB)

-----------------------------------------------------------------------------
(* C4, C5, C6 *)

\* the fields of a rating record as the variant in use compares them
rater(rec) == as_compared(rec[1])
rated_artist(rec) == as_compared(rec[2][1])
rated_title(rec) == as_compared(rec[2][2])
reject_key(rec) == <<rater(rec), rated_artist(rec), rated_title(rec)>>

\* the stored ratings of the record's rater for the record's song, on any date
earlier_ratings(rec) ==
    {r \in Rating : r.username = rater(rec) /\
        \E s \in songs_of(DB, rated_artist(rec), rated_title(rec)) :
            s.song_id = r.song_id}

\* C4: in music_dbs the Rating table holds at most one rating per
\* (username, song) whatever the dates, and a record of a user who has a
\* stored rating for the song is rejected with every table left unchanged.
C4_OneRatingEver ==
    variant = "music_dbs" =>
        /\ one_rating_per_user_song(DB)
        /\ \A rec \in RatingInputs :
             LET out == dbs_rating_record(start, rec)
             IN  earlier_ratings(rec) # {} =>
                   out.db = DB /\ out.rejected = {reject_key(rec)}

\* the last load_song_ratings call rejected (u1, A1, s1) for an earlier
\* rating, and a record dated differently from the stored rating is rejected
C4_Witness ==
    /\ variant = "music_dbs"
    /\ call = "load_song_ratings"
    /\ <<U1, A1, S1>> \in rejected
    /\ U1 \in User
    /\ \E r \in Rating, rec \in RatingInputs :
         /\ r \in earlier_ratings(rec)
         /\ r.rating_date # rec[4]
         /\ rec[3] \in 1..5
         /\ reject_key(rec) = <<U1, A1, S1>>

\* the checks of a rating record, stated on the stored tables
rating_checks_pass(rec) ==
    /\ rec[3] \in 1..5
    /\ rater(rec) \in User
    /\ songs_of(DB, rated_artist(rec), rated_title(rec)) # {}
    /\ IF variant = "music_dbs"
       THEN earlier_ratings(rec) = {}
       ELSE \A r \in earlier_ratings(rec) : r.rating_date # rec[4]

C6_RatingRowsValid ==
    /\ \A r \in Rating :
         /\ r.rating \in 1..5
         /\ r.username \in User
         /\ \E s \in Song : s.song_id = r.song_id
    /\ \A rec \in RatingInputs :
         LET out == rating_record(start, rec)
         IN  rec[3] \notin 1..5 =>
               out.db = DB /\ out.rejected = {reject_key(rec)}

\* (u2, A1, s2) was rejected although u2 and the song are stored and u2 has
\* rated nothing: only the out-of-range records are rejected there
C6_Witness ==
    /\ call = "load_song_ratings"
    /\ <<U2, A1, S2>> \in rejected
    /\ U2 \in User
    /\ songs_of(DB, A1, S2) # {}
    /\ \A r \in Rating : r.username # U2

-----------------------------------------------------------------------------
(* C7 *)

single_title(rec) == as_compared(rec[1])
single_artist(rec) == as_compared(rec[3])
single_key(rec) == <<single_title(rec), single_artist(rec)>>

\* the condition under which a single is to be rejected, on the tables `db`
single_is_duplicate(db, rec) ==
    \/ songs_of(db, single_artist(rec), single_title(rec)) # {}
    \/ variant = "music_dbs" /\ Len(rec[2]) = 0

\* C7: a single is rejected exactly when the artist already has a song of
\* that title (single or album track) or, in music_dbs, its genre set is
\* empty; a rejected single leaves Song, Album and Song_genre unchanged, an
\* accepted one adds one single row; and load_single_songs returns exactly
\* the keys of the batch records rejected when they were processed.
C7_SinglesRejectedIffDuplicate ==
    /\ \A rec \in SingleInputs :
         LET out == single_record(start, rec)
         IN  IF single_is_duplicate(DB, rec)
             THEN /\ out.rejected = {single_key(rec)}
                  /\ out.db.Song = Song
                  /\ out.db.Album = Album
                  /\ out.db.Song_genre = Song_genre
             ELSE /\ out.rejected = {}
                  /\ Song \subseteq out.db.Song
                  /\ Cardinality(out.db.Song \ Song) = 1
                  /\ \A s \in out.db.Song \ Song :
                       /\ s \in songs_of(out.db, single_artist(rec), single_title(rec))
                       /\ s.album_id = NULL
                       /\ s.single_release_date = rec[4]
    /\ \A batch \in Batches(SingleInputs) :
         single_loop(start, batch).rejected =
           {single_key(batch[i]) : i \in {j \in 1..Len(batch) :
               single_is_duplicate(single_loop(start, SubSeq(batch, 1, j - 1)).db,
                                   batch[j])}}

\* the genre names linked to a song
genres_of(db, s) ==
    {g.name : g \in {x \in db.Genre :
        \E l \in db.Song_genre : l.song_id = s.song_id /\ l.genre_id = x.genre_id}}

\* (s1, A1) was rejected and the stored single s1 of A1 still has the first
\* record's date and genre
C7_Witness ==
    /\ call = "load_single_songs"
    /\ <<S1, A1>> \in rejected
    /\ \E s \in songs_of(DB, A1, S1) :
         /\ s.album_id = NULL
         /\ s.single_release_date = D1
         /\ genres_of(DB, s) = {Pop}

-----------------------------------------------------------------------------
(* C8 *)

\* the titles of a list of song titles
titles_in(songs) == {songs[i] : i \in 1..Len(songs)}

\* C8: in music_db an album whose (title, artist) is not stored is inserted
\* with nothing reported, and exactly the listed titles the artist does not
\* have yet become its tracks, one row each; an album whose (title, artist)
\* is stored is the only kind reported, and changes nothing.
C8_LooseAlbumSkipsSongs ==
    variant = "music_db" =>
      \A rec \in AlbumInputs :
        LET out == db_album_record(start, rec)
            fresh == {t \in titles_in(rec[4]) : songs_of(DB, rec[2], t) = {}}
            added == out.db.Song \ Song
        IN  IF albums_of(DB, rec[2], rec[1]) # {}
            THEN out.rejected = {<<rec[1], rec[2]>>} /\ out.db = DB
            ELSE /\ out.rejected = {}
                 /\ Album \subseteq out.db.Album
                 /\ Song \subseteq out.db.Song
                 /\ Cardinality(out.db.Album \ Album) = 1
                 /\ \A b \in out.db.Album \ Album :
                      /\ b \in albums_of(out.db, rec[2], rec[1])
                      /\ \A s \in added : s.album_id = b.album_id
                 /\ {s.title : s \in added} = fresh
                 /\ Cardinality(added) = Cardinality(fresh)
                 /\ \A s \in added : s \in songs_of(out.db, rec[2], s.title)

\* album X of A1 was loaded with the list (s1, s2) while s1 was a single of
\* A1: s2 is its track, s1 stays a single, nothing is reported
C8_Witness ==
    /\ variant = "music_db"
    /\ call = "load_albums"
    /\ rejected = {}
    /\ \E b \in albums_of(DB, A1, X) :
         /\ b.release_date = D1
         /\ \E s \in songs_of(DB, A1, S1) : s.album_id = NULL
         /\ \E s \in songs_of(DB, A1, S2) : s.album_id = b.album_id

-----------------------------------------------------------------------------
(* C9 *)

\* C9: in music_dbs an album is accepted exactly when its song list is not
\* empty, the artist has no album of that title and none of the listed
\* titles; an accepted album adds one Song row per distinct trimmed title,
\* with the new album's id, no single release date and one Song_genre link,
\* to the album's genre; a rejected one is reported and adds no album or song.
C9_StrictAlbumAcceptance ==
    variant = "music_dbs" =>
      \A rec \in AlbumInputsS :
        LET out == dbs_album_record(start, rec)
            title == strip(rec[1])
            genre == strip(rec[2])
            artist == strip(rec[3])
            titles == {strip(t) : t \in titles_in(rec[5])}
            added == out.db.Song \ Song
        IN  IF /\ Len(rec[5]) > 0
               /\ albums_of(DB, artist, title) = {}
               /\ \A t \in titles : songs_of(DB, artist, t) = {}
            THEN /\ out.rejected = {}
                 /\ Album \subseteq out.db.Album
                 /\ Song \subseteq out.db.Song
                 /\ Cardinality(out.db.Album \ Album) = 1
                 /\ {s.title : s \in added} = titles
                 /\ Cardinality(added) = Cardinality(titles)
                 /\ \A b \in out.db.Album \ Album :
                      /\ b \in albums_of(out.db, artist, title)
                      /\ \A s \in added :
                           /\ s.album_id = b.album_id
                           /\ s.single_release_date = NULLDATE
                           /\ s \in songs_of(out.db, artist, s.title)
                           /\ {x \in out.db.Song_genre : x.song_id = s.song_id}
                                = {[song_id |-> s.song_id, genre_id |-> b.genre_id,
                                    copy |-> 1]}
                           /\ genres_of(out.db, s) = {genre}
            ELSE /\ out.rejected = {<<title, artist>>}
                 /\ out.db.Album = Album
                 /\ out.db.Song = Song
                 /\ out.db.Song_genre = Song_genre

\* album Y of A1, listed as (s2, s2 with a trailing tab), was accepted with
\* the single track s2
C9_Witness ==
    /\ variant = "music_dbs"
    /\ call = "load_albums"
    /\ rejected = {}
    /\ \E b \in albums_of(DB, A1, Y) :
         {s.title : s \in {x \in Song : x.album_id = b.album_id}} = {S2}

-----------------------------------------------------------------------------
(* C10 *)

\* C10: from the same User table and for the same batch, load_users of
\* music_db and load_users of music_dbs store the same usernames and return
\* the same rejected set.
C10_LoadUsersEquivalent ==
    \A users \in Batches(UserInputs) :
        LET loose == db_user_loop(start, users)
            strict == dbs_user_loop(start, users)
        IN  loose.db.User = strict.db.User /\ loose.rejected = strict.rejected

-----------------------------------------------------------------------------
(* C11, C12 *)

Loaders == {"load_single_songs", "load_albums", "load_users", "load_song_ratings"}

\* the batches given to a loader of the variant in use
batches_of(op) ==
    CASE op = "load_single_songs" -> Batches(SingleInputs)
      [] op = "load_albums" -> IF variant = "music_dbs" THEN Batches(AlbumInputsS)
                               ELSE Batches(AlbumInputs)
      [] op = "load_users" -> Batches(UserInputs)
      [] op = "load_song_ratings" -> Batches(RatingInputs)

\* one call of a loader of the variant in use on the tables db: the tables it
\* leaves and the set it returns
load(op, db, batch) ==
    LET st == [db |-> db, rejected |-> {}]
    IN  CASE op = "load_single_songs" -> single_loop(st, batch)
          [] op = "load_albums" -> IF variant = "music_dbs" THEN dbs_album_loop(st, batch)
                                   ELSE db_album_loop(st, batch)
          [] op = "load_users" -> IF variant = "music_dbs" THEN dbs_user_loop(st, batch)
                                  ELSE db_user_loop(st, batch)
          [] op = "load_song_ratings" -> IF variant = "music_dbs"
                                         THEN dbs_rating_loop(st, batch)
                                         ELSE db_rating_loop(st, batch)

\* C11: every loader is idempotent on the stored tables: from every reachable
\* state and for every batch, loading the batch a second time right after the
\* first load leaves all seven tables exactly as the first load left them.
C11_LoadersIdempotent ==
    \A op \in Loaders : \A batch \in batches_of(op) :
        LET first == load(op, DB, batch)
            second == load(op, first.db, batch)
        IN  second.db = first.db

\* load_albums has just been called on album X of A1, which it had already
\* stored with its songs: it rejected the album, which is stored once
C11_Witness ==
    /\ call = "load_albums"
    /\ rejected = {<<X, A1>>}
    /\ Cardinality(albums_of(DB, A1, X)) = 1
    /\ \E s \in songs_of(DB, A1, S2) : s.album_id # NULL

\* the records of a batch from position i to position j
records(batch, i, j) == SubSeq(batch, i, j)

\* every table of db is contained in the same table of later
grown(db, later) ==
    /\ db.Artist \subseteq later.Artist
    /\ db.Genre \subseteq later.Genre
    /\ db.Album \subseteq later.Album
    /\ db.Song \subseteq later.Song
    /\ db.Song_genre \subseteq later.Song_genre
    /\ db.User \subseteq later.User
    /\ db.Rating \subseteq later.Rating

\* C12: from every reachable state, for every loader and every batch cut at
\* any position into b1 followed by b2: one call on the whole batch leaves
\* the same tables as a call on b1 followed by a call on b2, and returns the
\* union of the two calls' rejected sets; what the records of b1 inserted
\* stays stored whatever is rejected after them.
C12_BatchIsSequenceOfCalls ==
    \A op \in Loaders : \A batch \in batches_of(op) :
        LET whole == load(op, DB, batch)
        IN  \A k \in 0..Len(batch) :
                LET one == load(op, DB, records(batch, 1, k))
                    two == load(op, one.db, records(batch, k + 1, Len(batch)))
                IN  /\ whole.db = two.db
                    /\ whole.rejected = one.rejected \cup two.rejected
                    /\ grown(one.db, whole.db)

\* load_song_ratings has just returned with the record of the unknown user U2
\* rejected and a rating of U1 stored
C12_Witness ==
    /\ call = "load_song_ratings"
    /\ rejected = {<<U2, A1, S2>>}
    /\ \E r \in Rating : r.username = U1
    /\ U2 \notin User

-----------------------------------------------------------------------------
(* C13 *)

\* the tables clear_database of the variant in use deletes, in its order
tables_in_use == IF variant = "music_dbs" THEN dbs_tables ELSE db_tables

\* every reference of a stored row leads to a stored row: a song's artist
\* and album, an album's artist and genre, a genre link's song and genre, a
\* rating's user and song
references_hold(db) ==
    /\ \A s \in db.Song :
          /\ \E a \in db.Artist : a.artist_id = s.artist_id
          /\ s.album_id = NULL \/ \E b \in db.Album : b.album_id = s.album_id
    /\ \A b \in db.Album :
          /\ \E a \in db.Artist : a.artist_id = b.artist_id
          /\ b.genre_id = NULL \/ \E g \in db.Genre : g.genre_id = b.genre_id
    /\ \A l \in db.Song_genre :
          /\ \E s \in db.Song : s.song_id = l.song_id
          /\ \E g \in db.Genre : g.genre_id = l.genre_id
    /\ \A r \in db.Rating :
          /\ r.username \in db.User
          /\ \E s \in db.Song : s.song_id = r.song_id

empty_tables ==
    [Artist |-> {}, Genre |-> {}, Album |-> {}, Song |-> {}, Song_genre |-> {},
     User |-> {}, Rating |-> {}]

\* C13: clear_database deletes in the order Rating, Song_genre, Song, Album,
\* User, Genre, Artist; run from any reachable state, after each of its seven
\* DELETE statements every reference of a remaining row still leads to a
\* stored row, after the last one all seven tables are empty, and the state
\* it leaves has all seven tables empty.
C13_ClearDatabaseOrder ==
    /\ tables_in_use = <<"Rating", "Song_genre", "Song", "Album", "User", "Genre", "Artist">>
    /\ \A k \in 0..Len(tables_in_use) :
          references_hold(after_deletes(DB, tables_in_use, k))
    /\ after_deletes(DB, tables_in_use, Len(tables_in_use)) = empty_tables
    /\ call = "clear_database" => DB = empty_tables

\* a state with rows in all seven tables that clear_database is run from:
\* after its fourth DELETE the songs and albums are gone while the genres and
\* artists they referred to are still stored
C13_Witness ==
    /\ \A k \in 1..Len(tables_in_use) : DB[tables_in_use[k]] # {}
    /\ LET db == after_deletes(DB, tables_in_use, 4)
       IN  /\ db.Song = {} /\ db.Album = {}
           /\ db.User # {} /\ db.Genre # {} /\ db.Artist # {}
    /\ ENABLED (db_clear_database \/ dbs_clear_database)

-----------------------------------------------------------------------------
(* C14 *)

\* the (name, count) pairs of the artists with is_group = 0 that released at
\* least one single in the year range
expected_prolific(db, year_range) ==
    {row \in {<<a.name, Cardinality({s \in db.Song :
                        /\ s.artist_id = a.artist_id
                        /\ s.album_id = NULL
                        /\ s.single_release_date # NULLDATE
                        /\ s.single_release_date[1] \in year_range[1]..year_range[2]})>> :
                  a \in {x \in db.Artist : x.is_group = 0}} : row[2] > 0}

\* the (name, count) pairs of the genres with at least one Song_genre row
expected_genres(db) ==
    {row \in {<<g.name, Cardinality({l \in db.Song_genre : l.genre_id = g.genre_id})>> :
                  g \in db.Genre} : row[2] > 0}

\* the (title, artist, count) triples of the songs rated in the year range
expected_rated(db, year_range) ==
    LET count(s) == Cardinality({r \in db.Rating :
                        /\ r.song_id = s.song_id
                        /\ r.rating_date[1] \in year_range[1]..year_range[2]})
    IN  {<<p[1].title, p[2].name, count(p[1])>> :
            p \in {q \in db.Song \X db.Artist :
                      q[1].artist_id = q[2].artist_id /\ count(q[1]) > 0}}

\* the (username, count) pairs of the users with a rating in the year range
expected_engaged(db, year_range) ==
    {row \in {<<u, Cardinality({r \in db.Rating :
                        /\ r.username = u
                        /\ r.rating_date[1] \in year_range[1]..year_range[2]})>> :
                  u \in db.User} : row[2] > 0}

\* a returned row holds the name first and the count last
name_of(row) == row[1]
count_of(row) == row[Len(row)]

\* row a has the larger count, or the same count and the smaller name
row_before(a, b) ==
    \/ count_of(a) > count_of(b)
    \/ count_of(a) = count_of(b) /\ str_before(name_of(a), name_of(b))

\* rows is a top-n answer over the expected rows: min(n, number of groups)
\* different rows, each with its true count, none ranking before an earlier
\* one, and no omitted group ranking before a returned one
top_n(rows, expected, n) ==
    /\ Len(rows) = IF n < Cardinality(expected) THEN n ELSE Cardinality(expected)
    /\ \A i \in 1..Len(rows) : rows[i] \in expected
    /\ \A i, j \in 1..Len(rows) :
          i < j => rows[i] # rows[j] /\ ~row_before(rows[j], rows[i])
    /\ \A e \in expected :
          (\A i \in 1..Len(rows) : rows[i] # e)
              => \A i \in 1..Len(rows) : ~row_before(e, rows[i])

-----------------------------------------------------------------------------
(* C15 *)

\* C15: a storage fault during a statement of a loader always leaves the
\* loader as an error: whenever a statement of the last call failed, the call
\* raised and returned no rejected set.
C15_FaultsPropagate ==
    fault.stmt # "none" => fault.raised /\ rejected = {}

-----------------------------------------------------------------------------
(* C16 *)

\* the original claim: get_most_rated_songs has one possible answer in every
\* state, for every year range and n
C16_MostRatedDeterministic ==
    \A n \in 0..MaxN, year_range \in YearRanges :
        Cardinality(get_most_rated_songs(DB, year_range, n)) = 1

\* two different songs rated in the year range with the same title and the
\* same number of ratings
same_key_songs(db, year_range) ==
    \E a, b \in expected_rated(db, year_range) :
        a # b /\ name_of(a) = name_of(b) /\ count_of(a) = count_of(b)

\* C16: in every reachable state, for every year range and n,
\* get_most_rated_songs has exactly one possible answer whenever no two
\* songs rated in the range have both the same title and the same number of
\* ratings; between two such songs (the same title by two artists) the
\* ordering key decides nothing.
C16_DeterministicUnlessSameKey ==
    \A n \in 0..MaxN, year_range \in YearRanges :
        ~same_key_songs(DB, year_range)
            => Cardinality(get_most_rated_songs(DB, year_range, n)) = 1

\* get_most_rated_songs has just returned s1 and s2 of A1 with one rating
\* each, s1 first by title, and it could return nothing else
C16_Witness ==
    /\ call = "get_most_rated_songs"
    /\ result.rows = << <<S1, A1, 1>>, <<S2, A1, 1>> >>
    /\ ~same_key_songs(DB, result.year_range)
    /\ get_most_rated_songs(DB, result.year_range, result.n) = {result.rows}

-----------------------------------------------------------------------------
(* C17 *)

\* the songs linked to a genre
songs_linked(db, g) ==
    {s \in db.Song : \E l \in db.Song_genre :
                        l.song_id = s.song_id /\ l.genre_id = g.genre_id}

\* C17: in every reachable state Song_genre holds at most one row for each
\* (song, genre) pair, and the count get_top_song_genres reports for a genre
\* is the number of distinct songs linked to the genre.
C17_OneLinkPerSongGenre ==
    /\ \A l \in Song_genre : l.copy = 1
    /\ \A g \in Genre : \A n \in 0..MaxN : \A rows \in get_top_song_genres(DB, n) :
          \A i \in 1..Len(rows) :
              rows[i][1] = g.name => rows[i][2] = Cardinality(songs_linked(DB, g))

====
